---- MODULE Spec2Model ----
(***************************************************************************)
(* Model of cloudplayer.radio.component: the rotary encoder decoding       *)
(* (Input -> RotaryEncoder -> Potentiometer) and the CloudPlayer login     *)
(* flow (start_login, create_token, check_token, say_hello, fetch).        *)
(*                                                                         *)
(* SpecEncoder drives the encoder chain with GPIO edges; SpecAuth drives   *)
(* the login flow with timer ticks, HTTP responses and the user claiming   *)
(* a token.  The variables of the other component keep their initial       *)
(* values in each specification.                                           *)
(***************************************************************************)
EXTENDS Integers, Sequences, FiniteSets, Bags, TLC

VARIABLES
    \* ---- GPIO lines and the encoder chain
    clk,            \* GPIO.input(clk channel): the level of the CLK line
    dt,             \* GPIO.input(dt channel): the level of the DT line
    queue,          \* edge callbacks detected and not yet run, oldest first
    last_clk_state, \* RotaryEncoder.last_clk_state
    value,          \* Potentiometer.value, in units of 1/One
    \* ---- what the last step handled and published
    ev,             \* the VALUE_CHANGED event RotaryEncoder.__call__ handled last
    pub,            \* the events published by the last step, in order
    \* ---- history of the encoder run
    seen_clk,       \* clk_state computed at the previous handled event
    nEdges,         \* level changes of either line so far
    nClk,           \* level changes of the CLK line so far
    nRot,           \* rotation events published so far
    dirs,           \* the rotation actions published so far
    turn,           \* progress of a one-direction turn CLK, DT, CLK, DT, ...
    nTurn,          \* edges of that turn handled so far
    v0,             \* Potentiometer.value at construction
    \* ---- CloudPlayer
    cookie,         \* CloudPlayer.cookie: the parts joined by ';' (<<>>: none)
    file,           \* the content of tok_v1.cookie (<<>>: absent or empty)
    token,          \* CloudPlayer.token (id 0: None)
    login_callback, \* the coarse PeriodicCallback: "none", "running", "stopped"
    timers,         \* the claim-poll PeriodicCallbacks created: TRUE is running
    token_callback, \* CloudPlayer.token_callback: an index of timers, 0 is None
    pending_create, \* the create_token that start_login added to the loop
    inflight,       \* bag of the requests coroutines are suspended at
    \* ---- the remote API
    srv_tokens,     \* tokens the API has issued: their ids are 1..srv_tokens
    srv_claimed,    \* ids of the tokens the user has claimed
    \* ---- history of the login flow
    act,            \* the handler that ran in the last step
    had_cookie,     \* the persisted cookie was loaded, non-empty, at construction
    issued,         \* the kinds of request issued so far
    nReq,           \* requests issued so far
    nTicks,         \* timer ticks so far
    nStart,         \* AUTH_START events published so far
    nDone,          \* AUTH_DONE events published so far
    claimed_seen,   \* a claim-status response with claimed = true was handled
    overlap,        \* a create_token has started while a POST /token was in flight
    last_hs,        \* the Set-Cookie headers of the response fetch returned in the last step
    \* ---- SocketServer and the server's entries in the EventManager
    subscriptions,  \* SocketServer.subscriptions: the buffered (action, target) pairs
    ws_connection,  \* SocketServer.ws_connection: "None" or "conn"
    live,           \* the (action, target) pairs the EventManager holds for the server
    \* ---- history of the socket run
    connected,      \* a client is connected: on_open was called last, not on_close
    sock,           \* what the last step called on the server, and its outcome
    armed,          \* a client has connected while the buffer was not empty
    nSockOps,       \* calls and published events so far
    nSentBus        \* messages sent for published events so far

encVars == <<clk, dt, queue, last_clk_state, value, ev, seen_clk,
             nEdges, nClk, nRot, dirs, turn, nTurn, v0>>

authVars == <<cookie, file, token, login_callback, timers, token_callback,
              pending_create, inflight, srv_tokens, srv_claimed, act,
              had_cookie, issued, nReq, nTicks, nStart, nDone, claimed_seen,
              overlap, last_hs>>

sockVars == <<subscriptions, ws_connection, live, connected, sock, armed,
              nSockOps, nSentBus>>

vars == <<encVars, authVars, sockVars, pub>>

----------------------------------------------------------------------------
(* Bounds of the model *)

\* level changes of the two lines in one run
MaxEdges == 5
\* calls on the SocketServer and events published to it in one run
MaxSockOps == 6
\* edge callbacks that may wait to run
MaxPending == 2
\* value units per step: the initial value ranges over multiples of step/Grain
Grain == 2
\* ticks of the coarse and the claim-poll timers in one run
MaxTicks == 4

(* Program constants *)

\* Potentiometer.__init__(..., steps=32.0)
Steps == 32

\* 1.0 in value units
One == Steps * Grain
\* Potentiometer.step = 1.0 / steps
Step == One \div Steps

Min(a, b) == IF a <= b THEN a ELSE b
Max(a, b) == IF a >= b THEN a ELSE b

Levels == {0, 1}
Lines == {"clk", "dt"}

NoEvent == [src |-> "none", clk_state |-> 0, dt_state |-> 0, seen |-> 0,
            rot |-> "NONE", old_value |-> 0, thread |-> "none"]

\* The actions and sources of the events on the bus.
Actions == {"VALUE_CHANGED", "ROTATE_LEFT"}
Targets == {"potentiometer", "clk"}
Pairs == Actions \X Targets
\* The payloads of the published events.
Volumes == {0, 50}

NoCall == [op |-> "none", action |-> "none", target |-> "none",
           handled |-> FALSE, outcome |-> "none", body |-> 0,
           buffer |-> {}, added |-> {}]

----------------------------------------------------------------------------
(* RotaryEncoder *)

\* RotaryEncoder.__call__: the pair (clk_state, dt_state) of an event from
\* `src` with value `val`; the other line is read with get().
ClkState(src, val) == IF src = "clk" THEN val ELSE clk
DtState(src, val) == IF src = "clk" THEN dt ELSE val

\* RotaryEncoder.__call__: the rotation published for (clk_state, dt_state),
\* "NONE" if none is.
Decide(clk_state, dt_state, last) ==
    IF clk_state # last
    THEN IF dt_state = clk_state THEN "ROTATE_LEFT" ELSE "ROTATE_RIGHT"
    ELSE "NONE"

\* RotaryEncoder.__call__: last_clk_state after an event.  The handler has
\* no assignment to it: it stays what __init__ read.
LastClkAfter(last, clk_state) == last

(* Potentiometer *)

\* Potentiometer.__call__: the value after a rotation event.
PotValueNoClamp(v, action) ==
    IF action = "ROTATE_LEFT" THEN v + Step ELSE v - Step

PotValue(v, action) ==
    IF action = "ROTATE_LEFT" THEN Min(v + Step, One) ELSE Max(v - Step, 0)

\* Potentiometer.__call__: int(self.value * 100), the published payload.
\* v / One * 100 is exact in binary floating point for these values, and
\* int() truncates.
Percent(v) == (v * 100) \div One

PotPublishesChanges(old, new) ==
    IF new = old THEN <<>>
    ELSE <<[action |-> "VALUE_CHANGED", source |-> "potentiometer",
            value |-> Percent(new)]>>

\* Potentiometer.__call__: what it publishes after a rotation event that
\* took the value from `old` to `new`.
PotPublishes(old, new) ==
    <<[action |-> "VALUE_CHANGED", source |-> "potentiometer",
       value |-> Percent(new)]>>

(* Input *)

\* The thread that runs the edge-detection callbacks, Input.callback among
\* them.
CallbackThread == "gpio"

\* Component.publish: the thread that runs EventManager.publish, and the
\* subscribers within it, for a publish made on thread t: a plain call.
PublishThread(t) == t

----------------------------------------------------------------------------
(* The encoder run *)

\* SocketServer left out of a run: constructed, never called.
SockIdle ==
    /\ subscriptions = {}
    /\ ws_connection = "None"
    /\ live = {}
    /\ connected = FALSE
    /\ sock = NoCall
    /\ armed = FALSE
    /\ nSockOps = 0
    /\ nSentBus = 0

\* CloudPlayer left out of a run: nothing constructed.
AuthIdle ==
    /\ cookie = <<>>
    /\ file = <<>>
    /\ token = [id |-> 0, claimed |-> FALSE]
    /\ login_callback = "none"
    /\ timers = <<>>
    /\ token_callback = 0
    /\ pending_create = FALSE
    /\ inflight = EmptyBag
    /\ srv_tokens = 0
    /\ srv_claimed = {}
    /\ act = "init"
    /\ had_cookie = FALSE
    /\ issued = {}
    /\ nReq = 0
    /\ nTicks = 0
    /\ nStart = 0
    /\ nDone = 0
    /\ claimed_seen = FALSE
    /\ overlap = FALSE
    /\ last_hs = <<>>

InitEncoder ==
    /\ AuthIdle
    /\ SockIdle
    /\ clk \in Levels
    /\ dt \in Levels
    /\ queue = <<>>
    /\ last_clk_state = clk
    /\ value \in 0..One
    /\ v0 = value
    /\ ev = NoEvent
    /\ pub = <<>>
    /\ seen_clk = clk
    /\ nEdges = 0
    /\ nClk = 0
    /\ nRot = 0
    /\ dirs = {}
    /\ turn = IF clk = dt THEN "start" ELSE "broken"
    /\ nTurn = 0

\* The turn so far is CLK, DT, CLK, DT, ... with every edge handled before
\* the next one: what follows a level change of `line`.
TurnAfter(line) ==
    IF queue = <<>> /\ ((turn \in {"start", "dt"} /\ line = "clk")
                        \/ (turn = "clk" /\ line = "dt"))
    THEN line
    ELSE "broken"

\* The hardware changes the level of a line; edge detection (GPIO.BOTH)
\* notes the callback of that line's Input.
LineChange(line) ==
    /\ nEdges < MaxEdges
    /\ Len(queue) < MaxPending
    /\ IF line = "clk"
       THEN clk' = 1 - clk /\ dt' = dt
       ELSE dt' = 1 - dt /\ clk' = clk
    /\ queue' = Append(queue, line)
    /\ nEdges' = nEdges + 1
    /\ nClk' = IF line = "clk" THEN nClk + 1 ELSE nClk
    /\ turn' = TurnAfter(line)
    /\ pub' = <<>>
    /\ UNCHANGED <<last_clk_state, value, ev, seen_clk, nRot, dirs, nTurn, v0>>
    /\ UNCHANGED <<authVars, sockVars>>

\* Input.callback of the oldest noted edge: publish VALUE_CHANGED with
\* get(); RotaryEncoder.__call__ and Potentiometer.__call__ run within the
\* publish.
Callback ==
    /\ queue # <<>>
    /\ LET src == Head(queue)
           val == IF src = "clk" THEN clk ELSE dt
           clk_state == ClkState(src, val)
           dt_state == DtState(src, val)
           rot == Decide(clk_state, dt_state, last_clk_state)
           newv == IF rot = "NONE" THEN value ELSE PotValue(value, rot)
       IN /\ queue' = Tail(queue)
          /\ last_clk_state' = LastClkAfter(last_clk_state, clk_state)
          /\ value' = newv
          /\ ev' = [src |-> src, clk_state |-> clk_state, dt_state |-> dt_state,
                    seen |-> seen_clk, rot |-> rot, old_value |-> value,
                    thread |-> PublishThread(CallbackThread)]
          /\ pub' = <<[action |-> "VALUE_CHANGED", source |-> src, value |-> val]>>
                    \o (IF rot = "NONE" THEN <<>>
                        ELSE <<[action |-> rot, source |-> "rotary_encoder",
                                value |-> 0]>>
                             \o PotPublishes(value, newv))
          /\ seen_clk' = clk_state
          /\ nRot' = IF rot = "NONE" THEN nRot ELSE nRot + 1
          /\ dirs' = IF rot = "NONE" THEN dirs ELSE dirs \cup {rot}
          /\ nTurn' = IF turn \in {"clk", "dt"} THEN nTurn + 1 ELSE nTurn
    /\ UNCHANGED <<clk, dt, nEdges, nClk, turn, v0>>
    /\ UNCHANGED <<authVars, sockVars>>

NextEncoder ==
    \/ \E line \in Lines : LineChange(line)
    \/ Callback

SpecEncoder == InitEncoder /\ [][NextEncoder]_vars

----------------------------------------------------------------------------
(* CloudPlayer.fetch *)

\* A coroutine runs up to its request in the step that starts it, and from
\* the response to its end (or its next request) in the step that handles
\* the response: the rest of fetch, which touches only the cookie, and the
\* caller's continuation, which never reads it, are one step.  Responses
\* arrive in any order and after any delay; a PeriodicCallback ticks while
\* an earlier invocation of its coroutine is suspended.  None, the empty
\* string and an absent file are all the empty cookie <<>>.

\* A response's Set-Cookie headers: a list of headers, each the list of its
\* ';'-separated parts, the first being name=value.
SetCookieLists ==
    { <<>>,
      << <<"sid=b", "Path=/">> >>,
      << <<"sid=b", "Path=/">>, <<"lang=en", "HttpOnly">> >> }

\* fetch: ';'.join(c.split(';', 1)[0] for c in cookie_headers), as the list
\* of the joined parts.
NewCookies(hs) == [i \in 1..Len(hs) |-> Head(hs[i])]

\* fetch: self.cookie after a response with Set-Cookie headers hs.
CookieAfter(c, hs) == IF NewCookies(hs) # <<>> THEN NewCookies(hs) ELSE c

FileNotWritten(f, hs) == f

\* fetch: tok_v1.cookie after a response with Set-Cookie headers hs.
FileAfter(f, hs) == IF NewCookies(hs) # <<>> THEN NewCookies(hs) ELSE f

\* fetch: the request sent for `op`, with the Cookie header if self.cookie
\* is set; a claim-status request names the token id in its url.
Request(op, id, c) == [op |-> op, id |-> id, cookie |-> c]

Requests(op) == { r \in BagToSet(inflight) : r.op = op }

\* The encoder chain left out of a run.
EncoderIdle ==
    /\ clk = 1
    /\ dt = 1
    /\ queue = <<>>
    /\ last_clk_state = 1
    /\ value = 0
    /\ v0 = 0
    /\ ev = NoEvent
    /\ pub = <<>>
    /\ seen_clk = 1
    /\ nEdges = 0
    /\ nClk = 0
    /\ nRot = 0
    /\ dirs = {}
    /\ turn = "start"
    /\ nTurn = 0

(* CloudPlayer.__init__ *)

\* __init__: the cookie file cannot be read or is empty (IOError,
\* AssertionError): start_login; otherwise say_hello.
AlwaysStartsLogin(c) == TRUE

StartsLogin(c) == c = <<>>

InitAuth ==
    /\ EncoderIdle
    /\ SockIdle
    /\ file \in { <<>>, <<"sid=a">> }
    /\ cookie = file
    /\ had_cookie = (file # <<>>)
    /\ token = [id |-> 0, claimed |-> FALSE]
    /\ token_callback = 0
    /\ timers = <<>>
    /\ IF StartsLogin(file)
       THEN \* start_login: the coarse timer runs, create_token is added to the loop
            /\ login_callback = "running"
            /\ pending_create = TRUE
            /\ inflight = EmptyBag
            /\ issued = {}
            /\ nReq = 0
       ELSE \* say_hello runs up to its request
            /\ login_callback = "none"
            /\ pending_create = FALSE
            /\ inflight = SetToBag({Request("hello", 0, file)})
            /\ issued = {"hello"}
            /\ nReq = 1
    /\ srv_tokens = 0
    /\ srv_claimed = {}
    /\ act = "init"
    /\ nTicks = 0
    /\ nStart = 0
    /\ nDone = 0
    /\ claimed_seen = FALSE
    /\ overlap = FALSE
    /\ last_hs = <<>>

(* PeriodicCallback.stop *)

\* self.token_callback.stop(): the timer token_callback refers to stops.
TimerStop(ts, i) == IF i = 0 THEN ts ELSE [ts EXCEPT ![i] = FALSE]

(* CloudPlayer.create_token *)

\* create_token up to its request: stop the claim-poll timer, if there is
\* one, and send POST /token.
CreateTokenStart ==
    /\ timers' = TimerStop(timers, token_callback)
    /\ inflight' = inflight (+) SetToBag({Request("create", 0, cookie)})
    /\ issued' = issued \cup {"create"}
    /\ nReq' = nReq + 1
    /\ pub' = <<>>
    /\ overlap' = (overlap \/ Requests("create") # {})
    /\ last_hs' = <<>>
    /\ UNCHANGED <<cookie, file, token, login_callback, token_callback,
                   srv_tokens, srv_claimed, had_cookie, nStart, nDone,
                   claimed_seen>>
    /\ UNCHANGED <<encVars, sockVars>>

\* The loop runs the create_token that start_login added with add_callback.
RunCreate ==
    /\ pending_create
    /\ pending_create' = FALSE
    /\ act' = "RunCreate"
    /\ nTicks' = nTicks
    /\ CreateTokenStart

\* A tick of the coarse timer (login_callback) runs create_token.  The
\* added create_token runs in the loop's next iteration, before any tick.
LoginTick ==
    /\ login_callback = "running"
    /\ ~pending_create
    /\ nTicks < MaxTicks
    /\ nTicks' = nTicks + 1
    /\ act' = "LoginTick"
    /\ UNCHANGED pending_create
    /\ CreateTokenStart

\* create_token: what it publishes once the token `id` is stored and its
\* claim-poll timer started: AUTH_START with 'enter\n<id>'.
CreatePublishesNothing(id) == <<>>

CreatePublishes(id) ==
    <<[action |-> "AUTH_START", source |-> "cloudplayer", value |-> id]>>

\* create_token after its request: the response carries a new token.
CreateResponse(r, hs) ==
    /\ r \in Requests("create")
    /\ inflight' = inflight (-) SetToBag({r})
    /\ cookie' = CookieAfter(cookie, hs)
    /\ file' = FileAfter(file, hs)
    /\ srv_tokens' = srv_tokens + 1
    /\ token' = [id |-> srv_tokens + 1, claimed |-> FALSE]
    /\ timers' = Append(timers, TRUE)
    /\ token_callback' = Len(timers) + 1
    /\ pub' = CreatePublishes(srv_tokens + 1)
    /\ nStart' = nStart + Len(CreatePublishes(srv_tokens + 1))
    /\ act' = "CreateResponse"
    /\ last_hs' = hs
    /\ UNCHANGED <<login_callback, pending_create, srv_claimed, had_cookie,
                   issued, nReq, nTicks, nDone, claimed_seen, overlap>>
    /\ UNCHANGED <<encVars, sockVars>>

(* CloudPlayer.check_token *)

\* A tick of a running claim-poll timer runs check_token up to its request
\* for the stored token.
CheckTick(t) ==
    /\ t \in 1..Len(timers)
    /\ timers[t]
    /\ nTicks < MaxTicks
    /\ nTicks' = nTicks + 1
    /\ inflight' = inflight (+) SetToBag({Request("check", token.id, cookie)})
    /\ issued' = issued \cup {"check"}
    /\ nReq' = nReq + 1
    /\ pub' = <<>>
    /\ act' = "CheckTick"
    /\ last_hs' = <<>>
    /\ UNCHANGED <<cookie, file, token, login_callback, timers, token_callback,
                   pending_create, srv_tokens, srv_claimed, had_cookie,
                   nStart, nDone, claimed_seen, overlap>>
    /\ UNCHANGED <<encVars, sockVars>>

\* check_token: login_callback after a claimed token is seen.
LoginKeptAfterClaim(l) == l

LoginAfterClaim(l) == "stopped"

\* check_token after its request: store the token of the response; if it is
\* claimed, stop token_callback and login_callback and run say_hello up to
\* its request.
CheckResponse(r, claimed, hs) ==
    /\ r \in Requests("check")
    /\ claimed => r.id \in srv_claimed
    /\ cookie' = CookieAfter(cookie, hs)
    /\ file' = FileAfter(file, hs)
    /\ token' = [id |-> r.id, claimed |-> claimed]
    /\ IF claimed
       THEN /\ timers' = TimerStop(timers, token_callback)
            /\ login_callback' = LoginAfterClaim(login_callback)
            /\ inflight' = (inflight (-) SetToBag({r}))
                           (+) SetToBag({Request("hello", 0, cookie')})
            /\ issued' = issued \cup {"hello"}
            /\ nReq' = nReq + 1
            /\ claimed_seen' = TRUE
       ELSE /\ inflight' = inflight (-) SetToBag({r})
            /\ UNCHANGED <<timers, login_callback, issued, nReq, claimed_seen>>
    /\ pub' = <<>>
    /\ act' = "CheckResponse"
    /\ last_hs' = hs
    /\ UNCHANGED <<token_callback, pending_create, srv_tokens, srv_claimed,
                   had_cookie, nTicks, nStart, nDone, overlap>>
    /\ UNCHANGED <<encVars, sockVars>>

(* CloudPlayer.say_hello *)

\* say_hello after its request: publish AUTH_DONE.
HelloResponse(r, hs) ==
    /\ r \in Requests("hello")
    /\ inflight' = inflight (-) SetToBag({r})
    /\ cookie' = CookieAfter(cookie, hs)
    /\ file' = FileAfter(file, hs)
    /\ pub' = <<[action |-> "AUTH_DONE", source |-> "cloudplayer", value |-> 0]>>
    /\ nDone' = nDone + 1
    /\ act' = "HelloResponse"
    /\ last_hs' = hs
    /\ UNCHANGED <<token, login_callback, timers, token_callback,
                   pending_create, srv_tokens, srv_claimed, had_cookie,
                   issued, nReq, nTicks, nStart, claimed_seen, overlap>>
    /\ UNCHANGED <<encVars, sockVars>>

\* A request fails: http_client.fetch raises (hs is empty), or the caller
\* cannot decode the body of the response, whose cookies fetch has stored.
\* The coroutine ends with the exception.
RequestFails(r, hs) ==
    /\ r \in BagToSet(inflight)
    /\ inflight' = inflight (-) SetToBag({r})
    /\ cookie' = CookieAfter(cookie, hs)
    /\ file' = FileAfter(file, hs)
    /\ pub' = <<>>
    /\ act' = "RequestFails"
    /\ last_hs' = <<>>
    /\ UNCHANGED <<token, login_callback, timers, token_callback,
                   pending_create, srv_tokens, srv_claimed, had_cookie,
                   issued, nReq, nTicks, nStart, nDone, claimed_seen, overlap>>
    /\ UNCHANGED <<encVars, sockVars>>

\* fetch: the cookie file after a write that raises: open() fails and
\* leaves it, or write() fails after open() has truncated it.
FileAfterFailedWrite(f, truncated) == IF truncated THEN <<>> ELSE f

\* fetch raises IOError writing the cookies of a response: self.cookie is
\* already assigned, the response is not returned and the coroutine ends
\* with the exception.
WriteFails(r, hs, truncated) ==
    /\ r \in BagToSet(inflight)
    /\ NewCookies(hs) # <<>>
    /\ inflight' = inflight (-) SetToBag({r})
    /\ cookie' = CookieAfter(cookie, hs)
    /\ file' = FileAfterFailedWrite(file, truncated)
    /\ pub' = <<>>
    /\ act' = "WriteFails"
    /\ last_hs' = <<>>
    /\ UNCHANGED <<token, login_callback, timers, token_callback,
                   pending_create, srv_tokens, srv_claimed, had_cookie,
                   issued, nReq, nTicks, nStart, nDone, claimed_seen, overlap>>
    /\ UNCHANGED <<encVars, sockVars>>

(* The remote API *)

\* The user claims an issued token.
Claim(id) ==
    /\ id \in 1..srv_tokens
    /\ id \notin srv_claimed
    /\ srv_claimed' = srv_claimed \cup {id}
    /\ pub' = <<>>
    /\ act' = "Claim"
    /\ last_hs' = <<>>
    /\ UNCHANGED <<cookie, file, token, login_callback, timers, token_callback,
                   pending_create, inflight, srv_tokens, had_cookie, issued,
                   nReq, nTicks, nStart, nDone, claimed_seen, overlap>>
    /\ UNCHANGED <<encVars, sockVars>>

NextAuth ==
    \/ RunCreate
    \/ LoginTick
    \/ \E t \in 1..Len(timers) : CheckTick(t)
    \/ \E r \in BagToSet(inflight), hs \in SetCookieLists : CreateResponse(r, hs)
    \/ \E r \in BagToSet(inflight), c \in BOOLEAN, hs \in SetCookieLists :
           CheckResponse(r, c, hs)
    \/ \E r \in BagToSet(inflight), hs \in SetCookieLists : HelloResponse(r, hs)
    \/ \E r \in BagToSet(inflight), hs \in SetCookieLists : RequestFails(r, hs)
    \/ \E r \in BagToSet(inflight), hs \in SetCookieLists, tr \in BOOLEAN :
           WriteFails(r, hs, tr)
    \/ \E id \in 1..srv_tokens : Claim(id)

SpecAuth == InitAuth /\ [][NextAuth]_vars

----------------------------------------------------------------------------
(* EventManager, as far as the SocketServer's subscriptions go *)

\* EventManager.add_subscription(action, target, server): the server's
\* entries afterwards.  Subscribing twice is idempotent.
AddSubscription(l, pair) == l \cup {pair}

\* EventManager.remove_subscription(action, target, server): removing an
\* entry that is not there is a no-op.
RemoveSubscription(l, pair) == l \ {pair}

\* EventManager.publish(event): the server's handler is invoked if an entry
\* of the server has the event's action and its source as target.
Dispatched(l, action, source) == <<action, source>> \in l

(* SocketServer *)

RECURSIVE SubscribeAll(_, _)
\* on_open: the loop over the buffer, subscribing each pair.
SubscribeAll(l, buffer) ==
    IF buffer = {} THEN l
    ELSE LET pair == CHOOSE x \in buffer : TRUE
         IN SubscribeAll(AddSubscription(l, pair), buffer \ {pair})

RECURSIVE UnsubscribeAll(_, _)
\* on_close: the loop over the buffer, unsubscribing each pair.
UnsubscribeAll(l, buffer) ==
    IF buffer = {} THEN l
    ELSE LET pair == CHOOSE x \in buffer : TRUE
         IN UnsubscribeAll(RemoveSubscription(l, pair), buffer \ {pair})

LiveAfterSubscribeNow(l, pair) == AddSubscription(l, pair)

\* SocketServer.subscribe: the server's EventManager entries afterwards.
\* The override only adds to the buffer.
LiveAfterSubscribe(l, pair) == l

\* SocketServer.write(volume=body): a message is sent on the connection if
\* there is one; with none, the else branch formats `message`, a local that
\* was never assigned, and raises UnboundLocalError.
Write(ws) == IF ws # "None" THEN "sent" ELSE "raised"

\* SocketServer.__call__: write for a VALUE_CHANGED event, nothing else.
Handle(action, ws) == IF action = "VALUE_CHANGED" THEN Write(ws) ELSE "ignored"

InitSocket ==
    /\ EncoderIdle
    /\ AuthIdle
    /\ subscriptions = {}
    /\ ws_connection = "None"
    /\ live = {}
    /\ connected = FALSE
    /\ sock = NoCall
    /\ armed = FALSE
    /\ nSockOps = 0
    /\ nSentBus = 0

\* SocketServer.subscribe(action, target)
Subscribe(pair) ==
    /\ nSockOps < MaxSockOps
    /\ subscriptions' = subscriptions \cup {pair}
    /\ live' = LiveAfterSubscribe(live, pair)
    /\ sock' = [NoCall EXCEPT !.op = "subscribe", !.action = pair[1],
                              !.target = pair[2], !.buffer = subscriptions,
                              !.added = live' \ live]
    /\ nSockOps' = nSockOps + 1
    /\ pub' = <<>>
    /\ UNCHANGED <<ws_connection, connected, armed, nSentBus>>
    /\ UNCHANGED <<encVars, authVars>>

\* SocketServer.unsubscribe(action, target)
Unsubscribe(pair) ==
    /\ nSockOps < MaxSockOps
    /\ subscriptions' = subscriptions \ {pair}
    /\ sock' = [NoCall EXCEPT !.op = "unsubscribe", !.action = pair[1],
                              !.target = pair[2], !.buffer = subscriptions]
    /\ nSockOps' = nSockOps + 1
    /\ pub' = <<>>
    /\ UNCHANGED <<ws_connection, live, connected, armed, nSentBus>>
    /\ UNCHANGED <<encVars, authVars>>

\* SocketServer.on_open(ws_connection): a client connects.
OnOpen ==
    /\ nSockOps < MaxSockOps
    /\ ws_connection' = "conn"
    /\ live' = SubscribeAll(live, subscriptions)
    /\ connected' = TRUE
    /\ armed' = (armed \/ subscriptions # {})
    /\ sock' = [NoCall EXCEPT !.op = "on_open", !.buffer = subscriptions,
                              !.added = live' \ live]
    /\ nSockOps' = nSockOps + 1
    /\ pub' = <<>>
    /\ UNCHANGED <<subscriptions, nSentBus>>
    /\ UNCHANGED <<encVars, authVars>>

\* SocketServer.on_close(): the client disconnects.  ws_connection is left
\* as it is.
OnClose ==
    /\ nSockOps < MaxSockOps
    /\ live' = UnsubscribeAll(live, subscriptions)
    /\ connected' = FALSE
    /\ sock' = [NoCall EXCEPT !.op = "on_close", !.buffer = subscriptions]
    /\ nSockOps' = nSockOps + 1
    /\ pub' = <<>>
    /\ UNCHANGED <<subscriptions, ws_connection, armed, nSentBus>>
    /\ UNCHANGED <<encVars, authVars>>

\* A component publishes an event: the EventManager invokes the server's
\* handler if the server has a matching entry.
Publish(action, source, v) ==
    /\ nSockOps < MaxSockOps
    /\ LET handled == Dispatched(live, action, source)
           outcome == IF handled THEN Handle(action, ws_connection)
                      ELSE "none"
       IN /\ sock' = [NoCall EXCEPT !.op = "publish", !.action = action,
                                    !.target = source, !.handled = handled,
                                    !.outcome = outcome, !.body = v,
                                    !.buffer = subscriptions]
          /\ nSentBus' = IF outcome = "sent" THEN nSentBus + 1 ELSE nSentBus
    /\ nSockOps' = nSockOps + 1
    /\ pub' = <<[action |-> action, source |-> source, value |-> v]>>
    /\ UNCHANGED <<subscriptions, ws_connection, live, connected, armed>>
    /\ UNCHANGED <<encVars, authVars>>

\* SocketServer.__call__(event), called on the component itself.
Call(action, source, v) ==
    /\ nSockOps < MaxSockOps
    /\ sock' = [NoCall EXCEPT !.op = "call", !.action = action,
                              !.target = source, !.handled = TRUE,
                              !.outcome = Handle(action, ws_connection),
                              !.body = v, !.buffer = subscriptions]
    /\ nSockOps' = nSockOps + 1
    /\ pub' = <<>>
    /\ UNCHANGED <<subscriptions, ws_connection, live, connected, armed,
                   nSentBus>>
    /\ UNCHANGED <<encVars, authVars>>

NextSocket ==
    \/ \E pair \in Pairs : Subscribe(pair)
    \/ \E pair \in Pairs : Unsubscribe(pair)
    \/ OnOpen
    \/ OnClose
    \/ \E a \in Actions, t \in Targets, v \in Volumes : Publish(a, t, v)
    \/ \E a \in Actions, t \in Targets, v \in Volumes : Call(a, t, v)

SpecSocket == InitSocket /\ [][NextSocket]_vars

----------------------------------------------------------------------------
(* Claims about the encoder chain, checked under SpecEncoder *)

IsRotation(e) == e.action \in {"ROTATE_LEFT", "ROTATE_RIGHT"}

RotationPublished == \E i \in 1..Len(pub) : IsRotation(pub[i])

\* C1: an event whose CLK level equals the CLK level seen at the previous
\* handled event (at construction, if there is none) publishes neither
\* ROTATE_LEFT nor ROTATE_RIGHT.
C1_NoRotationWithoutClkChange ==
    (ev.src # "none" /\ pub # <<>> /\ ev.clk_state = ev.seen) => ~RotationPublished

\* C2: while the lines change alternately CLK, DT, CLK, DT, ... from equal
\* levels, each edge handled before the next, the rotation events published
\* never include both ROTATE_LEFT and ROTATE_RIGHT.
C2_OneDirection ==
    turn \in {"clk", "dt"} => Cardinality(dirs) <= 1

\* C3: the rotation events published never outnumber the CLK level
\* transitions, and a full cycle CLK, DT, CLK, DT in one direction, started
\* where no clamping can interfere, leaves the value a non-zero whole number
\* of steps from its starting value, all steps in one direction.
C3_OneDecisionPerClkTransition ==
    /\ nRot <= nClk
    /\ (turn = "dt" /\ nTurn = 4 /\ queue = <<>>
        /\ v0 >= 2 * Step /\ v0 <= One - 2 * Step)
       => (value # v0 /\ (value - v0) % Step = 0 /\ Cardinality(dirs) = 1)

\* C4: the value is within [0.0, 1.0] after every event; ROTATE_LEFT sets it
\* to min(value + step, 1.0) and ROTATE_RIGHT to max(value - step, 0.0).
C4_ValueClamped ==
    /\ value >= 0 /\ value <= One
    /\ ev.rot = "ROTATE_LEFT" =>
         value = (IF ev.old_value + Step < One THEN ev.old_value + Step ELSE One)
    /\ ev.rot = "ROTATE_RIGHT" =>
         value = (IF ev.old_value - Step > 0 THEN ev.old_value - Step ELSE 0)

\* A ROTATE_LEFT was handled at a value less than one step below 1.0.
C4_Witness ==
    ev.rot = "ROTATE_LEFT" /\ ev.old_value < One /\ ev.old_value + Step > One
    /\ value = One

\* round(x) for x = v * 100 / One: the nearest integer, a tie going to the
\* even neighbour.
RoundPercent(v) ==
    LET q == (v * 100) \div One
        r == (v * 100) % One
    IN IF 2 * r < One THEN q
       ELSE IF 2 * r > One THEN q + 1
       ELSE IF q % 2 = 0 THEN q ELSE q + 1

\* C5: for a value that is a multiple of step, the payload of the
\* Potentiometer's VALUE_CHANGED equals round(value * 100).
C5_PayloadIsRounded ==
    \A i \in 1..Len(pub) :
        (pub[i].source = "potentiometer" /\ value % Step = 0)
            => pub[i].value = RoundPercent(value)

----------------------------------------------------------------------------
(* Claims about the login flow, checked under SpecAuth *)

\* Requests of kind `op` in flight, counted with their multiplicity.
InFlight(op) == BagCardinality([r \in Requests(op) |-> inflight[r]])

RunningTimers == { t \in 1..Len(timers) : timers[t] }

AuthDonePublished ==
    \E i \in 1..Len(pub) : pub[i].action = "AUTH_DONE"

\* C6: with no persisted cookie, AUTH_DONE is published at most once in the
\* session, so a successful /user/me response publishes the only one.
C6_AuthDoneAtMostOnce ==
    ~had_cookie => (nDone <= 1 /\ (AuthDonePublished => nDone = 1))

\* C7: when AUTH_DONE is published on the login path, neither the coarse
\* timer nor any claim-poll timer ever created is running.
C7_NoTimerAtAuthDone ==
    (~had_cookie /\ AuthDonePublished)
        => (login_callback # "running" /\ RunningTimers = {})

\* C8: at most one POST /token is in flight and at most one claim-poll
\* timer is running.
C8_OneCreateOneTimer ==
    InFlight("create") <= 1 /\ Cardinality(RunningTimers) <= 1

\* C9, as claimed: after a token-creation request has succeeded the coarse
\* timer starts no create_token invocation.
C9_NoLoginTickAfterCreate ==
    act = "LoginTick" => srv_tokens = 0

\* C9, amended: the coarse timer is stopped exactly when a claim-status
\* response with claimed = true has been handled, not when a token is
\* created; after that it starts no create_token invocation.
C9_LoginTimerStopsOnClaim ==
    /\ (login_callback = "stopped") <=> claimed_seen
    /\ act = "LoginTick" => ~claimed_seen
    /\ (~had_cookie /\ ~claimed_seen) => login_callback = "running"

\* The coarse timer has started a create_token after a token was created.
C9_Witness ==
    act = "LoginTick" /\ srv_tokens > 0 /\ InFlight("create") > 0

\* C10: with a cookie loaded at construction there is never a POST /token,
\* a timer or an AUTH_START; the only request is the identity fetch, and
\* its response publishes AUTH_DONE.
C10_CookiePath ==
    had_cookie =>
        /\ issued = {"hello"} /\ nReq = 1
        /\ InFlight("create") = 0 /\ ~pending_create
        /\ login_callback = "none" /\ timers = <<>> /\ token_callback = 0
        /\ nStart = 0
        /\ act = "HelloResponse" => (AuthDonePublished /\ nDone = 1)
        /\ nDone > 0 => (act = "HelloResponse" /\ inflight = EmptyBag)

\* The cached-cookie session has published AUTH_DONE.
C10_Witness ==
    had_cookie /\ nDone = 1 /\ AuthDonePublished

\* C11: a failed request never leaves the flow with nothing to retry it:
\* while AUTH_DONE has not been published, a request is in flight, a
\* create_token is waiting to run, or a timer is running.
C11_NeverStalled ==
    nDone = 0 =>
        \/ inflight # EmptyBag
        \/ pending_create
        \/ login_callback = "running"
        \/ RunningTimers # {}

AuthStartPublished ==
    \E i \in 1..Len(pub) : pub[i].action = "AUTH_START"

\* C15: with no persisted cookie, every successful token-creation response
\* publishes exactly one AUTH_START, with the stored token id and with the
\* claim-poll timer for it running, and a failed request publishes none.
C15_OneAuthStartPerToken ==
    ~had_cookie =>
        /\ nStart = srv_tokens
        /\ act = "CreateResponse" => (Len(pub) = 1 /\ AuthStartPublished)
        /\ AuthStartPublished =>
             /\ act = "CreateResponse"
             /\ pub[1].value = token.id
             /\ token.id = srv_tokens
             /\ token_callback \in RunningTimers
        /\ act = "RequestFails" => pub = <<>>

\* A second token was created and announced.
C15_Witness ==
    ~had_cookie /\ AuthStartPublished /\ nStart = 2 /\ token.id = 2

\* C17: after AUTH_DONE was published there is no AUTH_START, no timer
\* start and no token-creation or claim-status request.  Stated for the
\* runs in which no two POST /token overlap.
C17_AuthenticatedIsTerminal ==
    (nDone > 0 /\ ~overlap) =>
        /\ act \notin {"RunCreate", "LoginTick", "CheckTick", "CreateResponse"}
        /\ ~AuthStartPublished

\* C20: from an AUTH_START for token X to the next AUTH_START or AUTH_DONE
\* the stored token id is X, and a claim-status request issued polls X.
\* Stated for the runs in which no two POST /token overlap.
C20_StoredTokenIsLatest ==
    (srv_tokens > 0 /\ nDone = 0 /\ ~overlap) =>
        /\ token.id = srv_tokens
        /\ act = "CheckTick" =>
             \E r \in Requests("check") : r.id = srv_tokens

\* fetch handed a response back to its caller in the last step.
FetchReturned ==
    act \in {"CreateResponse", "CheckResponse", "HelloResponse"}

\* The name=value part of every Set-Cookie header, in order.
CookieParts(hs) == [i \in DOMAIN hs |-> hs[i][1]]

PotEvents ==
    { i \in 1..Len(pub) : /\ pub[i].source = "potentiometer"
                          /\ pub[i].action = "VALUE_CHANGED" }

\* C14: the rotary encoder, the potentiometer and the bus dispatch behind a
\* hardware edge run on the event-loop thread, never on the thread of the
\* edge-detection callback.
C14_HandlersRunOnLoop ==
    ev.src # "none" => ev.thread = "loop"

\* C19: the potentiometer publishes exactly one VALUE_CHANGED for every
\* rotation it handles and none otherwise; ROTATE_LEFT at 1.0 and
\* ROTATE_RIGHT at 0.0 leave the value unchanged and publish the percentage
\* it had.
C19_PublishesUnconditionally ==
    pub # <<>> =>
        /\ Cardinality(PotEvents) = (IF ev.rot = "NONE" THEN 0 ELSE 1)
        /\ \A i \in PotEvents : pub[i].value = Percent(value)
        /\ (ev.rot = "ROTATE_LEFT" /\ ev.old_value = One) =>
              /\ value = One
              /\ \A i \in PotEvents : pub[i].value = Percent(ev.old_value)
        /\ (ev.rot = "ROTATE_RIGHT" /\ ev.old_value = 0) =>
              /\ value = 0
              /\ \A i \in PotEvents : pub[i].value = Percent(ev.old_value)

C19_Witness ==
    /\ pub # <<>>
    /\ ev.rot = "ROTATE_LEFT"
    /\ ev.old_value = One
    /\ value = One
    /\ Cardinality(PotEvents) = 1

----------------------------------------------------------------------------
(* Claims about the SocketServer, checked under SpecSocket *)

\* C12: immediately after on_close the server has no live EventManager
\* subscription left, and on_open and on_close leave the buffer as it was.
C12_NoLiveAfterClose ==
    /\ sock.op = "on_close" => live = {}
    /\ sock.op \in {"on_open", "on_close"} => subscriptions = sock.buffer

\* C13: a VALUE_CHANGED event handled while ws_connection is None is
\* dropped: nothing is sent and the handler returns without raising.
C13_DroppedWithoutError ==
    (sock.handled /\ sock.action = "VALUE_CHANGED" /\ ws_connection = "None") =>
        sock.outcome \notin {"sent", "raised"}

\* C16: a client that connects while the buffer is empty makes no
\* subscription live, and until a client has connected with a pair in the
\* buffer the server has no live subscription, no published event reaches
\* its handler and no message is sent for one.
C16_SilentUntilBuffered ==
    /\ (sock.op = "on_open" /\ subscriptions = {}) => sock.added = {}
    /\ ~armed =>
          /\ live = {}
          /\ nSentBus = 0
          /\ sock.op = "publish" => (~sock.handled /\ sock.outcome = "none")

C16_Witness ==
    /\ ~armed
    /\ connected
    /\ sock.op = "publish"
    /\ <<sock.action, sock.target>> \in subscriptions
    /\ sock.action = "VALUE_CHANGED"
    /\ ~sock.handled
    /\ nSentBus = 0

====
